---- MODULE Spec2Model ----
(***************************************************************************)
(* Model of converter_jpg_to_webp.py: the EXIF sanitizer                   *)
(* (clean_exif_data), the timestamp resolver                               *)
(* (get_creation_datetime_from_exif), the converter                        *)
(* (convert_image_to_webp with set_file_timestamps and                     *)
(* save_metadata_backup) and the driver loop of main.                      *)
(*                                                                         *)
(* Python values are tagged records: bytes and str are kept apart (a str   *)
(* is a sequence of code points, bytes a sequence of 0..255), so that the  *)
(* UTF-8 conversions are real conversions.                                 *)
(***************************************************************************)
EXTENDS Integers, Sequences, FiniteSets, TLC

VARIABLES
    exif_dict,          \* argument of clean_exif_data / the resolver
    cleaned,            \* clean_exif_data(exif_dict)
    recleaned,          \* clean_exif_data(cleaned)
    resolved,           \* get_creation_datetime_from_exif(exif_dict)
    resolved_clean,     \* get_creation_datetime_from_exif(cleaned)
    epc,                \* position of the sanitizer/resolver harness
    image_files,        \* main: the discovered files, in glob order
    idx,                \* main: position of the for loop (next file)
    converted_count, failed_count, skipped_count,
    webp,               \* disk: <basename>.webp, per basename
    backup,             \* disk: <basename>_metadata.json
    backup_simple,      \* disk: <basename>_metadata_simple.json
    visited,            \* history: list positions entered by the loop
    convert_calls,      \* history: calls of convert_image_to_webp
    last,               \* history: inputs and outcome of the last iteration
    call,               \* history: environment and result of one converter call
    pc                  \* main: "loop", "summary" or "done"

evars == <<exif_dict, cleaned, recleaned, resolved, resolved_clean, epc>>
counters == <<converted_count, failed_count, skipped_count>>
disk == <<webp, backup, backup_simple>>
mvars == <<image_files, idx, converted_count, failed_count,
           skipped_count, webp, backup, backup_simple, visited,
           convert_calls, last, call, pc>>
vars == <<exif_dict, cleaned, recleaned, resolved, resolved_clean, epc,
          image_files, idx, converted_count, failed_count,
          skipped_count, webp, backup, backup_simple, visited,
          convert_calls, last, call, pc>>

----------------------------------------------------------------------------
(* Python values *)

None == [kind |-> "None"]
Unset == [kind |-> "unset"]
PyBytes(s) == [kind |-> "bytes", v |-> s]
PyStr(s) == [kind |-> "str", v |-> s]
PyInt(n) == [kind |-> "int", v |-> n]
PyTuple(s) == [kind |-> "tuple", v |-> s]
PyFloat == [kind |-> "float"]
PyDict(f) == [kind |-> "dict", tags |-> f]

\* a Python dict {k: v, ...} keyed by a finite set: a function
EmptyMap == [k \in {} |-> None]

----------------------------------------------------------------------------
(* str.encode('utf-8'), bytes.decode('utf-8', errors='ignore'), str.strip  *)
(* for code points below 2048 (one- and two-byte UTF-8 forms).             *)

RECURSIVE EncodeUtf8(_)
EncodeUtf8(s) ==
    IF s = <<>> THEN <<>>
    ELSE LET c == Head(s)
         IN  (IF c < 128 THEN <<c>>
              ELSE <<192 + (c \div 64), 128 + (c % 64)>>) \o EncodeUtf8(Tail(s))

RECURSIVE DecodeUtf8Ignore(_)
DecodeUtf8Ignore(b) ==
    IF b = <<>> THEN <<>>
    ELSE LET c == Head(b)
         IN  IF c < 128 THEN <<c>> \o DecodeUtf8Ignore(Tail(b))
             ELSE IF /\ c >= 194 /\ c <= 223 /\ Len(b) >= 2
                     /\ b[2] >= 128 /\ b[2] <= 191
                  THEN <<(c - 192) * 64 + (b[2] - 128)>>
                           \o DecodeUtf8Ignore(Tail(Tail(b)))
                  ELSE DecodeUtf8Ignore(Tail(b))

IsSpace(c) == c \in {9, 10, 11, 12, 13, 28, 29, 30, 31, 32}

RECURSIVE LStrip(_)
LStrip(s) ==
    IF s = <<>> THEN <<>>
    ELSE IF IsSpace(Head(s)) THEN LStrip(Tail(s)) ELSE s

RECURSIVE RStrip(_)
RStrip(s) ==
    IF s = <<>> THEN <<>>
    ELSE IF IsSpace(s[Len(s)]) THEN RStrip(SubSeq(s, 1, Len(s) - 1)) ELSE s

Strip(s) == RStrip(LStrip(s))

----------------------------------------------------------------------------
(* clean_exif_data *)

\* Python integers are unbounded; an integer n is the pair of its (floored)
\* quotient and remainder by 65536, so that values beyond 32 bits exist.
Big(hi, lo) == [hi |-> hi, lo |-> lo]
BigLe(a, b) == a.hi < b.hi \/ (a.hi = b.hi /\ a.lo <= b.lo)

INT32_MIN == Big(-32768, 0)           \* -2147483648
INT32_MAX == Big(32767, 65535)        \*  2147483647
INT32_MAX_PLUS_1 == Big(32768, 0)     \*  2147483648
INT32_MIN_MINUS_1 == Big(-32769, 65535) \* -2147483649

\* variant: the two IFD-pointer ids left out of the denylist
problematic_tags_no_ifd_pointers == {41729, 40961, 40962, 40963}
\* lines 34-41
problematic_tags == {41729, 40961, 40962, 40963, 34665, 34853}

\* variant: upper limit off by one
InInt32Loose(x) == BigLe(INT32_MIN, x) /\ BigLe(x, INT32_MAX_PLUS_1)
\* lines 68 and 73
InInt32(x) == BigLe(INT32_MIN, x) /\ BigLe(x, INT32_MAX)

IsInt(v) == v.kind = "int"

\* variant: the decoded probe of line 59 is stored, re-encoded
KeptBytesDecoded(v) == PyBytes(EncodeUtf8(DecodeUtf8Ignore(v.v)))
\* the value stored for a bytes tag (line 60): the original bytes; the decode
\* of line 59 uses errors='ignore' and never raises
KeptBytes(v) == v

\* variant: the text is stored as it is, not encoded
KeptStrRaw(v) == v
\* the value stored for a str tag (line 65)
KeptStr(v) == PyBytes(EncodeUtf8(v.v))

\* TRUE iff the tag survives the type/range validation of lines 54-74
TagKept(v) ==
    CASE v.kind = "bytes" -> TRUE
      [] v.kind = "str"   -> TRUE
      [] v.kind = "int"   -> InInt32(v.v)
      [] v.kind = "tuple" ->
            /\ Len(v.v) = 2
            /\ \A k \in 1..Len(v.v) : IsInt(v.v[k])
            /\ \A k \in 1..Len(v.v) : InInt32(v.v[k].v)
      [] OTHER -> FALSE

CleanedValue(v) ==
    CASE v.kind = "bytes" -> KeptBytes(v)
      [] v.kind = "str"   -> KeptStr(v)
      [] OTHER            -> v

\* the inner loop, lines 47-74: cleaned_ifd of one group
CleanIfd(ifd) ==
    LET keep == {t \in DOMAIN ifd : t \notin problematic_tags /\ TagKept(ifd[t])}
    IN  [t \in keep |-> CleanedValue(ifd[t])]

IsDict(e) == e.kind = "dict"

\* lines 76-81: does the top-level entry appear in cleaned_dict
EntryKept(e) ==
    IF IsDict(e) THEN DOMAIN CleanIfd(e.tags) # {}
    ELSE e.kind \in {"bytes", "str", "int"}

clean_exif_data(d) ==
    IF d = None \/ DOMAIN d = {} THEN None
    ELSE LET names == {n \in DOMAIN d : EntryKept(d[n])}
             cleaned_dict ==
                 [n \in names |->
                     IF IsDict(d[n]) THEN PyDict(CleanIfd(d[n].tags)) ELSE d[n]]
         IN  IF names = {} THEN None ELSE cleaned_dict

----------------------------------------------------------------------------
(* get_creation_datetime_from_exif *)

DateTimeOriginal == 36867
DateTimeDigitized == 36868
DateTime == 306

ZeroDateTime ==
    <<48,48,48,48,58,48,48,58,48,48,32,48,48,58,48,48,58,48,48>>

\* variant: the modified field probed first
datetime_tags_modified_first ==
    << <<"0th", DateTime>>,
       <<"Exif", DateTimeOriginal>>,
       <<"Exif", DateTimeDigitized>> >>
\* lines 150-154
datetime_tags ==
    << <<"Exif", DateTimeOriginal>>,
       <<"Exif", DateTimeDigitized>>,
       <<"0th", DateTime>> >>

\* lines 159-164: the text of a candidate, or Unset for `continue`
CandidateText(v) ==
    CASE v.kind = "bytes" -> PyStr(Strip(DecodeUtf8Ignore(v.v)))
      [] v.kind = "str"   -> PyStr(Strip(v.v))
      [] OTHER            -> Unset

\* line 167
Usable(txt) == txt # Unset /\ txt.v # <<>> /\ txt.v # ZeroDateTime

\* `tag_id in exif_dict[ifd_name]` raises when the entry is bytes (the ids
\* are above 255: ValueError), str, int, float or None (TypeError)
ProbeRaises(d, k) ==
    LET ifd == datetime_tags[k][1]
    IN  ifd \in DOMAIN d /\ ~IsDict(d[ifd])

\* the loop of lines 156-168 from position k on; the try of line 148 wraps
\* the whole loop, so an exception leaves the loop and line 173 returns None
RECURSIVE ProbeFrom(_, _)
ProbeFrom(d, k) ==
    IF k > Len(datetime_tags) THEN None
    ELSE LET ifd == datetime_tags[k][1]
             tag == datetime_tags[k][2]
         IN  IF ifd \notin DOMAIN d THEN ProbeFrom(d, k + 1)
             ELSE IF ProbeRaises(d, k) THEN None
             ELSE IF tag \notin DOMAIN d[ifd].tags THEN ProbeFrom(d, k + 1)
             ELSE LET txt == CandidateText(d[ifd].tags[tag])
                  IN  IF Usable(txt) THEN txt ELSE ProbeFrom(d, k + 1)

get_creation_datetime_from_exif(d) ==
    IF d = None \/ DOMAIN d = {} THEN None ELSE ProbeFrom(d, 1)

----------------------------------------------------------------------------
(* Inputs of the sanitizer/resolver harness *)

MaxTags == 2

D2020 == <<50,48,50,48,58,48,49,58,48,49,32,49,48,58,48,48,58,48,48>>
D2021 == <<50,48,50,49,58,48,53,58,48,53,32,48,53,58,48,53,58,48,53>>

TagValues ==
    { PyBytes(D2020),                           \* b"2020:01:01 10:00:00"
      PyBytes(ZeroDateTime),                    \* the placeholder
      PyStr(<<32>> \o D2021 \o <<32>>),         \* " 2021:05:05 05:05:05 "
      PyBytes(<<32, 32>>),                      \* blank
      PyBytes(<<65, 255>>),                     \* not valid UTF-8
      PyInt(INT32_MAX), PyInt(INT32_MAX_PLUS_1), PyInt(INT32_MIN_MINUS_1),
      PyTuple(<<PyInt(Big(0, 1)), PyInt(Big(0, 0))>>),          \* (1, 0)
      PyTuple(<<PyInt(INT32_MAX_PLUS_1), PyInt(Big(0, 1))>>),   \* (2147483648, 1)
      PyFloat }

TopValues == { PyBytes(<<1, 2>>), PyStr(<<233>>), PyInt(INT32_MAX_PLUS_1), None }

ExifTagIds == {DateTimeOriginal, DateTimeDigitized, 40962}
ZerothTagIds == {DateTime, 34665}

Ifds(ids) ==
    UNION { [S -> TagValues] : S \in {T \in SUBSET ids : Cardinality(T) <= MaxTags} }

GroupOpts(ids) == {Unset} \cup TopValues \cup {PyDict(f) : f \in Ifds(ids)}

NumTags(e) == IF IsDict(e) THEN Cardinality(DOMAIN e.tags) ELSE 0

MkTree(e, z, th) ==
    LET names == {n \in {"Exif", "0th", "thumbnail"} :
                     CASE n = "Exif" -> e # Unset
                       [] n = "0th"  -> z # Unset
                       [] OTHER      -> th # Unset}
    IN  [n \in names |-> CASE n = "Exif" -> e [] n = "0th" -> z [] OTHER -> th]

Trees ==
    { MkTree(c[1], c[2], c[3]) :
        c \in { x \in GroupOpts(ExifTagIds) \X GroupOpts(ZerothTagIds)
                        \X {Unset, None, PyBytes(<<1, 2>>)} :
                  NumTags(x[1]) + NumTags(x[2]) <= MaxTags } }

----------------------------------------------------------------------------
(* set_file_timestamps: datetime.strptime(s, '%Y:%m:%d %H:%M:%S') for the  *)
(* zero-padded 19-character form, then os.utime                            *)

IsDigit(c) == c >= 48 /\ c <= 57
Num2(s, p) == (s[p] - 48) * 10 + (s[p + 1] - 48)
Num4(s, p) == Num2(s, p) * 100 + Num2(s, p + 2)

FormatOK(s) ==
    /\ Len(s) = 19
    /\ s[5] = 58 /\ s[8] = 58 /\ s[11] = 32 /\ s[14] = 58 /\ s[17] = 58
    /\ \A p \in (1..19) \ {5, 8, 11, 14, 17} : IsDigit(s[p])

IsLeap(y) == (y % 4 = 0 /\ y % 100 # 0) \/ y % 400 = 0
DaysInMonth(y, m) ==
    IF m = 2 THEN (IF IsLeap(y) THEN 29 ELSE 28)
    ELSE IF m \in {4, 6, 9, 11} THEN 30 ELSE 31

\* the parsed instant <<Y, M, D, h, m, s>>, or ok = FALSE for ValueError
ParseExifDateTime(s) ==
    IF ~FormatOK(s) THEN [ok |-> FALSE]
    ELSE LET y == Num4(s, 1)  mo == Num2(s, 6)   d == Num2(s, 9)
             h == Num2(s, 12) mi == Num2(s, 15)  se == Num2(s, 18)
         IN  IF /\ y >= 1 /\ mo >= 1 /\ mo <= 12
                /\ d >= 1 /\ d <= DaysInMonth(y, mo)
                /\ h <= 23 /\ mi <= 59 /\ se <= 59
             THEN [ok |-> TRUE, t |-> <<y, mo, d, h, mi, se>>]
             ELSE [ok |-> FALSE]

Absent == [kind |-> "absent"]
Clock == [kind |-> "clock"]           \* the wall-clock time of a write
Instant(t) == [kind |-> "instant", t |-> t]
File(content, mtime, atime) ==
    [kind |-> "file", content |-> content, mtime |-> mtime, atime |-> atime]

\* lines 183-196; utime is the outcome of os.utime ("ok" or "raise")
set_file_timestamps(f, creation_datetime, utime) ==
    IF creation_datetime = None THEN f
    ELSE LET dt == ParseExifDateTime(creation_datetime.v)
         IN  IF dt.ok /\ utime = "ok"
             THEN File(f.content, Instant(dt.t), Instant(dt.t))
             ELSE f

----------------------------------------------------------------------------
(* extract_all_metadata: what the source file yields                      *)
(*   open_raises : Image.open raises (line 130 catches)                   *)
(*   no_exif     : 'exif' not in img.info                                 *)
(*   load_raises : piexif.load raises (line 114 catches)                  *)
(*   dated, bad_month : piexif.load returns SourceTree(src)               *)

\* what piexif.load returns: every IFD is a dict, thumbnail is None or bytes
LoadedTree(exif, zeroth, th) ==
    [n \in {"0th", "Exif", "thumbnail"} |->
        CASE n = "Exif" -> PyDict(exif) [] n = "0th" -> PyDict(zeroth) [] OTHER -> th]

D2020M13 == <<50,48,50,48,58,49,51,58,48,49,32,49,48,58,48,48,58,48,48>>

Sources == {"open_raises", "no_exif", "load_raises", "dated", "bad_month"}

SourceTree(src) ==
    IF src = "dated"
    THEN LoadedTree((DateTimeOriginal :> PyBytes(D2020)),
                    (DateTime :> PyBytes(D2021)), None)
    ELSE LoadedTree((40962 :> PyInt(Big(0, 640))),
                    (DateTime :> PyBytes(D2020M13)), PyBytes(<<1, 2>>))

\* metadata['exif'] of extract_all_metadata, lines 109-115
extract_exif(src) ==
    IF src \in {"dated", "bad_month"} THEN clean_exif_data(SourceTree(src)) ELSE None

\* lines 209-212 of convert_image_to_webp: metadata['exif'] and the
\* resolved timestamp
Extracted(src) ==
    LET exif == extract_exif(src)
    IN  [exif |-> exif, creation_datetime |-> get_creation_datetime_from_exif(exif)]

\* the extraction of every source, tabulated
Extractions == [src \in Sources |-> Extracted(src)]

----------------------------------------------------------------------------
(* save_metadata_backup, lines 385-412.  The outcome of a write is         *)
(*   ok               : the document is written and the file closed       *)
(*   raise_before_open: building the document or open() raises            *)
(*   raise_after_open : json.dump (or the flush at close) raises after    *)
(*                      open(path, 'w') created/truncated the file        *)

WriteOutcomes == {"ok", "raise_before_open", "raise_after_open"}

WriteJson(old, outcome) ==
    CASE outcome = "ok" -> "complete"
      [] outcome = "raise_after_open" -> "partial"
      [] OTHER -> old

\* the backup files of one basename after the call; simple is "na" when
\* the fallback is not reached
save_metadata_backup(bk, bks, full, simple) ==
    [ backup |-> WriteJson(bk, full),
      backup_simple |-> IF full = "ok" THEN bks ELSE WriteJson(bks, simple) ]

----------------------------------------------------------------------------
(* convert_image_to_webp, lines 207-265 *)

\* variant: piexif.dump without the try of lines 243-249
LocallyCaughtNoDump ==
    {"extract", "load", "utime", "backup", "backup_simple"}
\* the steps whose exception is caught before it reaches line 263
LocallyCaught ==
    {"extract", "load", "dump", "utime", "backup", "backup_simple"}

Escapes(step, raised) == raised /\ step \notin LocallyCaught

\* variant: no except clause at line 263, the exception reaches main
OuterExceptPropagates(escaped) == IF escaped THEN "raise" ELSE "True"
\* lines 263-265: what the caller sees when an exception reached line 263
OuterExcept(escaped) == IF escaped THEN "False" ELSE "True"

\* Image.save of Pillow opens the destination for writing; a failure leaves
\* the destination as it was (save_raise) or truncated (save_raise_partial)
SaveImage(old, name, outcome) ==
    CASE outcome = "ok" -> File(name, Clock, Clock)
      [] outcome = "save_raise_partial" -> File("partial", Clock, Clock)
      [] OTHER -> old

\* variant: the backup step rewrites the output after the timestamps are set
AfterSaveBackupTouches(f, bk, bks, creation_datetime, env) ==
    LET b == save_metadata_backup(bk, bks, env.backup, env.backup_simple)
        f1 == set_file_timestamps(f, creation_datetime, env.utime)
    IN  [webp |-> File(f1.content, Clock, Clock),
         backup |-> b.backup, backup_simple |-> b.backup_simple]
\* steps after the save, lines 254-259, in the order of the code
AfterSave(f, bk, bks, creation_datetime, env) ==
    LET f1 == set_file_timestamps(f, creation_datetime, env.utime)
        b == save_metadata_backup(bk, bks, env.backup, env.backup_simple)
    IN  [webp |-> f1, backup |-> b.backup, backup_simple |-> b.backup_simple]

\* env: the outcome of every step that can fail; "na" for a step not reached
convert_image_to_webp(name, f, bk, bks, env) ==
    LET exif == Extractions[env.src].exif
        creation_datetime == Extractions[env.src].creation_datetime
        e_open == Escapes("open", env.open = "raise")
        e_conv == Escapes("convert", env.convert = "raise")
        e_dump == Escapes("dump", env.dump = "raise")
        save_reached == ~(e_open \/ e_conv \/ e_dump)
        e_save == save_reached
                    /\ Escapes("save", env.save \in {"save_raise", "save_raise_partial"})
        saved == IF save_reached THEN SaveImage(f, name, env.save) ELSE f
        escaped == e_open \/ e_conv \/ e_dump \/ e_save
        done == IF save_reached /\ ~e_save
                THEN AfterSave(saved, bk, bks, creation_datetime, env)
                ELSE [webp |-> saved, backup |-> bk, backup_simple |-> bks]
    IN  [ result |-> OuterExcept(escaped),
          exif |-> exif,
          creation_datetime |-> creation_datetime,
          webp |-> done.webp, backup |-> done.backup,
          backup_simple |-> done.backup_simple ]

Env(src, op, cv, du, sv, ut, bk, bks) ==
    [src |-> src, open |-> op, convert |-> cv, dump |-> du, save |-> sv,
     utime |-> ut, backup |-> bk, backup_simple |-> bks]

\* piexif.dump runs only when metadata['exif'] is truthy (line 242)
DumpOutcomes(src) ==
    IF Extractions[src].exif = None THEN {"na"} ELSE {"ok", "raise"}

\* os.utime runs only when a timestamp was resolved and strptime parsed it
UtimeOutcomes(src) ==
    LET ts == Extractions[src].creation_datetime
    IN  IF ts = None \/ ~ParseExifDateTime(ts.v).ok THEN {"na"} ELSE {"ok", "raise"}

\* the fallback document is written only when the full one failed
BackupOutcomes ==
    {<<"ok", "na">>} \cup (({"raise_before_open", "raise_after_open"}) \X WriteOutcomes)

\* the environments the code can meet: a step is "na" exactly when an
\* earlier exception (or a condition of the code) keeps it from running
EnvsOf(src) ==
    { Env(src, "raise", "na", "na", "na", "na", "na", "na"),
      Env(src, "ok", "raise", "na", "na", "na", "na", "na") }
    \cup { Env(src, "ok", "ok", du, sv, "na", "na", "na") :
             du \in DumpOutcomes(src), sv \in {"save_raise", "save_raise_partial"} }
    \cup { Env(src, "ok", "ok", c[1], "ok", c[2], c[3][1], c[3][2]) :
             c \in DumpOutcomes(src) \X UtimeOutcomes(src) \X BackupOutcomes }

Envs == UNION { EnvsOf(src) : src \in Sources }

----------------------------------------------------------------------------
(* main: the discovered files *)

MaxFiles == 2

AllFiles == {"a.jpg", "a.png", "a.webp", "b.WEBP"}
Bases == {"a", "b"}

\* os.path.splitext(os.path.basename(image_file))[0], line 512
base_name(f) == IF f \in {"a.jpg", "a.png", "a.webp"} THEN "a" ELSE "b"

\* f"{base_name}.webp", line 513
webp_file(f) == IF base_name(f) = "a" THEN "a.webp" ELSE "b.webp"

\* image_file.lower().endswith('.webp'), line 516
LowerEndsWithWebp(f) == f \in {"a.webp", "b.WEBP"}

\* position in image_patterns (lines 482-490) of the pattern matching f
PatternRank(f) ==
    CASE f = "a.jpg" -> 1
      [] f = "a.png"  -> 5
      [] f = "a.webp" -> 17
      [] OTHER        -> 18

\* the lists built by lines 493-495: the files of the directory, pattern
\* by pattern; glob's order inside one pattern is the directory's
FileLists ==
    { s \in UNION { [1..n -> AllFiles] : n \in 0..MaxFiles } :
        /\ \A j, k \in DOMAIN s : j < k => s[j] # s[k]
        /\ \A j, k \in DOMAIN s : j < k => PatternRank(s[j]) <= PatternRank(s[k]) }

Range(s) == {s[k] : k \in DOMAIN s}

Answers == {"SIM", "n", ""}

\* str.lower on the answers
Lower(a) == IF a = "SIM" THEN "sim" ELSE a

\* line 516
AlreadyWebp(f) == LowerEndsWithWebp(f) /\ f = webp_file(f)

\* variant: the answer is not looked at
OverwriteAlways(resposta) == TRUE
\* line 530 negated: the answer lets the loop reach the conversion
Overwrite(resposta) == Lower(resposta) \in {"s", "sim", "y", "yes"}

NoLast == [idx |-> 0, outcome |-> "none", prompted |-> FALSE,
           resposta |-> "na", creation_datetime |-> None, utime |-> "na"]

----------------------------------------------------------------------------
(* Idle values: each specification leaves the other part's variables alone *)

IdleExif ==
    /\ exif_dict = None /\ cleaned = Unset /\ recleaned = Unset
    /\ resolved = Unset /\ resolved_clean = Unset /\ epc = "idle"

IdleMain ==
    /\ image_files = <<>> /\ idx = 1
    /\ converted_count = 0 /\ failed_count = 0 /\ skipped_count = 0
    /\ webp = [b \in Bases |-> Absent]
    /\ backup = [b \in Bases |-> "absent"]
    /\ backup_simple = [b \in Bases |-> "absent"]
    /\ visited = <<>> /\ convert_calls = 0 /\ last = NoLast /\ call = Unset
    /\ pc = "idle"

----------------------------------------------------------------------------
(* The harness: sanitize, sanitize again, resolve *)

InitExif ==
    /\ exif_dict \in Trees \cup {None}
    /\ cleaned = Unset
    /\ recleaned = Unset
    /\ resolved = Unset
    /\ resolved_clean = Unset
    /\ epc = "input"
    /\ IdleMain

CleanExif ==
    /\ epc = "input"
    /\ cleaned' = clean_exif_data(exif_dict)
    /\ epc' = "cleaned"
    /\ UNCHANGED <<exif_dict, recleaned, resolved, resolved_clean>>
    /\ UNCHANGED mvars

CleanAgain ==
    /\ epc = "cleaned"
    /\ recleaned' = clean_exif_data(cleaned)
    /\ epc' = "recleaned"
    /\ UNCHANGED <<exif_dict, cleaned, resolved, resolved_clean>>
    /\ UNCHANGED mvars

Resolve ==
    /\ epc = "recleaned"
    /\ resolved' = get_creation_datetime_from_exif(exif_dict)
    /\ resolved_clean' = get_creation_datetime_from_exif(cleaned)
    /\ epc' = "resolved"
    /\ UNCHANGED <<exif_dict, cleaned, recleaned>>
    /\ UNCHANGED mvars

NextExif == CleanExif \/ CleanAgain \/ Resolve

SpecExif == InitExif /\ [][NextExif]_vars

----------------------------------------------------------------------------
(* main *)

Init ==
    /\ IdleExif
    /\ image_files \in FileLists
    /\ idx = 1
    /\ converted_count = 0 /\ failed_count = 0 /\ skipped_count = 0
    \* a .webp of the directory is one of the discovered files
    /\ webp = [b \in Bases |->
                 IF b = "a" /\ "a.webp" \in Range(image_files)
                 THEN File("old", [kind |-> "old"], [kind |-> "old"])
                 ELSE Absent]
    \* an earlier run may have left the backup of an existing output
    /\ backup \in { bk \in [Bases -> {"absent", "old"}] :
                      \A b \in Bases : bk[b] = "old" => webp[b] # Absent }
    /\ backup_simple = [b \in Bases |-> "absent"]
    /\ visited = <<>>
    /\ convert_calls = 0
    /\ last = NoLast
    /\ call = Unset
    /\ pc = "start"

\* lines 497-508
Start ==
    /\ pc = "start"
    /\ pc' = IF image_files = <<>> THEN "nofiles" ELSE "loop"
    /\ UNCHANGED <<image_files, idx, counters, disk, visited,
                   convert_calls, last, call>>
    /\ UNCHANGED evars

InLoop == pc = "loop" /\ idx <= Len(image_files)

\* lines 516-519
SkipAlreadyWebp ==
    /\ InLoop
    /\ AlreadyWebp(image_files[idx])
    /\ skipped_count' = skipped_count + 1
    /\ idx' = idx + 1
    /\ visited' = Append(visited, idx)
    /\ last' = [NoLast EXCEPT !.idx = idx, !.outcome = "skipped"]
    /\ UNCHANGED <<image_files, converted_count, failed_count,
                   disk, convert_calls, call, pc>>
    /\ UNCHANGED evars

\* lines 521-532: the prompt is declined (display_metadata_info, called
\* before it when the operator asked for details, only reads and prints)
DeclineOverwrite ==
    /\ InLoop
    /\ ~AlreadyWebp(image_files[idx])
    /\ webp[base_name(image_files[idx])] # Absent
    /\ \E resposta \in Answers :
          /\ ~Overwrite(resposta)
          /\ last' = [NoLast EXCEPT !.idx = idx, !.outcome = "declined",
                                    !.prompted = TRUE, !.resposta = resposta]
    /\ idx' = idx + 1
    /\ visited' = Append(visited, idx)
    /\ UNCHANGED <<image_files, counters, disk, convert_calls, call, pc>>
    /\ UNCHANGED evars

\* lines 521-550: the prompt (when the output exists) is accepted, the file
\* is converted and counted
ConvertFile ==
    /\ InLoop
    /\ ~AlreadyWebp(image_files[idx])
    /\ \E resposta \in Answers \cup {"na"}, env \in Envs :
          /\ (resposta = "na") <=> (webp[base_name(image_files[idx])] = Absent)
          /\ resposta # "na" => Overwrite(resposta)
          /\ \E r \in { convert_image_to_webp(image_files[idx],
                             webp[base_name(image_files[idx])],
                             backup[base_name(image_files[idx])],
                             backup_simple[base_name(image_files[idx])], env) } :
                /\ webp' = [webp EXCEPT ![base_name(image_files[idx])] = r.webp]
                /\ backup' = [backup EXCEPT ![base_name(image_files[idx])] = r.backup]
                /\ backup_simple' =
                      [backup_simple EXCEPT ![base_name(image_files[idx])] = r.backup_simple]
                /\ last' = [idx |-> idx,
                            outcome |-> CASE r.result = "True" -> "converted"
                                          [] r.result = "False" -> "failed"
                                          [] OTHER -> "crashed",
                            prompted |-> resposta # "na", resposta |-> resposta,
                            creation_datetime |-> r.creation_datetime,
                            utime |-> env.utime]
                /\ converted_count' =
                      IF r.result = "True" THEN converted_count + 1 ELSE converted_count
                /\ failed_count' =
                      IF r.result = "False" THEN failed_count + 1 ELSE failed_count
                \* an exception out of the loop body ends the run (line 568)
                /\ pc' = IF r.result = "raise" THEN "crashed" ELSE "loop"
                /\ idx' = IF r.result = "raise" THEN idx ELSE idx + 1
    /\ convert_calls' = convert_calls + 1
    /\ visited' = Append(visited, idx)
    /\ UNCHANGED <<image_files, skipped_count, call>>
    /\ UNCHANGED evars

\* lines 552-561
Summary ==
    /\ pc = "loop"
    /\ idx > Len(image_files)
    /\ pc' = "summary"
    /\ UNCHANGED <<image_files, idx, counters, disk, visited,
                   convert_calls, last, call>>
    /\ UNCHANGED evars

\* lines 564-567: the operator interrupts the run
Interrupt ==
    /\ InLoop
    /\ pc' = "interrupted"
    /\ UNCHANGED <<image_files, idx, counters, disk, visited,
                   convert_calls, last, call>>
    /\ UNCHANGED evars

----------------------------------------------------------------------------
(* One call of convert_image_to_webp on an arbitrary destination state *)

DiskFiles ==
    {Absent, File("old", [kind |-> "old"], [kind |-> "old"])}

InitConvert ==
    /\ IdleExif
    /\ image_files \in { <<f>> : f \in {g \in AllFiles : ~AlreadyWebp(g)} }
    /\ idx = 1
    /\ converted_count = 0 /\ failed_count = 0 /\ skipped_count = 0
    /\ webp \in [Bases -> DiskFiles]
    /\ backup \in [Bases -> {"absent", "old"}]
    /\ backup_simple \in [Bases -> {"absent", "old"}]
    /\ \A b \in Bases \ {base_name(image_files[1])} :
          webp[b] = Absent /\ backup[b] = "absent" /\ backup_simple[b] = "absent"
    /\ visited = <<>>
    /\ convert_calls = 0
    /\ last = NoLast
    /\ call = Unset
    /\ pc = "call"

ConvertOnce ==
    /\ pc = "call"
    /\ \E env \in Envs :
          \E r \in { convert_image_to_webp(image_files[1],
                          webp[base_name(image_files[1])],
                          backup[base_name(image_files[1])],
                          backup_simple[base_name(image_files[1])], env) } :
             /\ webp' = [webp EXCEPT ![base_name(image_files[1])] = r.webp]
             /\ backup' = [backup EXCEPT ![base_name(image_files[1])] = r.backup]
             /\ backup_simple' =
                   [backup_simple EXCEPT ![base_name(image_files[1])] = r.backup_simple]
             /\ call' = [env |-> env, result |-> r.result,
                         creation_datetime |-> r.creation_datetime]
    /\ convert_calls' = convert_calls + 1
    /\ pc' = "returned"
    /\ UNCHANGED <<image_files, idx, counters, visited, last>>
    /\ UNCHANGED evars

SpecConvert == InitConvert /\ [][ConvertOnce]_vars

----------------------------------------------------------------------------

Step == Start \/ SkipAlreadyWebp \/ DeclineOverwrite \/ ConvertFile \/ Summary

Next == Step \/ Interrupt

Spec == Init /\ [][Next]_vars

\* the interpreter keeps executing the loop; only the operator's interrupt
\* is not bound to happen
FairSpec == Spec /\ WF_vars(Step)

----------------------------------------------------------------------------
(* Properties of the sanitizer and the resolver, under SpecExif *)

C_Sanitized == epc \in {"cleaned", "recleaned", "resolved"}

C1_Denylist == {41729, 40961, 40962, 40963, 34665, 34853}

\* C1: no group of the tree returned by clean_exif_data holds a tag whose id
\* is in the denylist, whatever its value and whichever group it was in.
C1_NoDenylistedTag ==
    (C_Sanitized /\ cleaned # None) =>
        \A n \in DOMAIN cleaned :
            IsDict(cleaned[n]) => DOMAIN cleaned[n].tags \cap C1_Denylist = {}

\* a denylisted tag was in a group of the input and the group is returned
C1_Witness ==
    /\ C_Sanitized /\ exif_dict # None /\ cleaned # None
    /\ \E n \in DOMAIN exif_dict \cap DOMAIN cleaned :
          /\ IsDict(exif_dict[n])
          /\ DOMAIN exif_dict[n].tags \cap C1_Denylist # {}

C2_InRange(x) == BigLe(Big(-32768, 0), x) /\ BigLe(x, Big(32767, 65535))

C2_Survives(n, t) ==
    /\ cleaned # None
    /\ n \in DOMAIN cleaned
    /\ IsDict(cleaned[n])
    /\ t \in DOMAIN cleaned[n].tags

C2_IsRational(v) ==
    v.kind = "tuple" /\ Len(v.v) = 2 /\ v.v[1].kind = "int" /\ v.v[2].kind = "int"

C2_Holds(d, v) ==
    d # None /\ \E n \in DOMAIN d :
                   IsDict(d[n]) /\ \E t \in DOMAIN d[n].tags : d[n].tags[t] = v

C3_ValidValue(v) ==
    \/ v.kind \in {"bytes", "str"}
    \/ v.kind = "int" /\ C2_InRange(v.v)
    \/ C2_IsRational(v) /\ C2_InRange(v.v[1].v) /\ C2_InRange(v.v[2].v)

\* only non-empty groups, holding only non-denylisted tags with valid values
C3_ValidTree(d) ==
    /\ d # None
    /\ DOMAIN d # {}
    /\ \A n \in DOMAIN d :
          /\ IsDict(d[n])
          /\ DOMAIN d[n].tags # {}
          /\ \A t \in DOMAIN d[n].tags :
                t \notin C1_Denylist /\ C3_ValidValue(d[n].tags[t])

C3_HasText(d) ==
    \E n \in DOMAIN d : \E t \in DOMAIN d[n].tags : d[n].tags[t].kind = "str"

C3_TextAsBytes(d) ==
    [n \in DOMAIN d |->
        PyDict([t \in DOMAIN d[n].tags |->
                  IF d[n].tags[t].kind = "str"
                  THEN PyBytes(EncodeUtf8(d[n].tags[t].v))
                  ELSE d[n].tags[t]])]

C4_Text(v) ==
    CASE v.kind = "bytes" -> Strip(DecodeUtf8Ignore(v.v))
      [] v.kind = "str"   -> Strip(v.v)
      [] OTHER            -> <<>>

C4_Placeholder == <<48,48,48,48,58,48,48,58,48,48,32,48,48,58,48,48,58,48,48>>

C4_Qualifies(d, g, t) ==
    /\ g \in DOMAIN d
    /\ IsDict(d[g])
    /\ t \in DOMAIN d[g].tags
    /\ C4_Text(d[g].tags[t]) # <<>>
    /\ C4_Text(d[g].tags[t]) # C4_Placeholder

C4_Expected(d) ==
    IF d = None \/ DOMAIN d = {} THEN None
    ELSE IF C4_Qualifies(d, "Exif", 36867) THEN PyStr(C4_Text(d["Exif"].tags[36867]))
    ELSE IF C4_Qualifies(d, "Exif", 36868) THEN PyStr(C4_Text(d["Exif"].tags[36868]))
    ELSE IF C4_Qualifies(d, "0th", 306) THEN PyStr(C4_Text(d["0th"].tags[306]))
    ELSE None

\* the groups the resolver probes are mappings (the other case is C10's)
C4_GroupsAreMappings(d) ==
    d = None \/ \A g \in {"Exif", "0th"} \cap DOMAIN d : IsDict(d[g])

C10_LaterFieldStillReturned ==
    ( /\ epc = "resolved"
      /\ cleaned # None
      /\ "Exif" \in DOMAIN cleaned
      /\ ~IsDict(cleaned["Exif"])
      /\ C4_Qualifies(cleaned, "0th", 306) )
        => resolved_clean = PyStr(C4_Text(cleaned["0th"].tags[306]))

----------------------------------------------------------------------------
(* Properties of the converter and of the driver loop, under Spec *)

C5_Called == pc = "returned"

C5_FatalRaised ==
    \/ call.env.open = "raise"
    \/ call.env.convert = "raise"
    \/ call.env.save \in {"save_raise", "save_raise_partial"}

\* C5: convert_image_to_webp returns failure iff opening the source,
\* converting its mode or saving the output raises; a failure of metadata
\* extraction, EXIF serialization, timestamp application or backup writing
\* never makes it fail.  (Under SpecConvert.)
C5_FailureIffOpenConvertSave ==
    C5_Called =>
        /\ (call.result = "False") <=> C5_FatalRaised
        /\ (call.result = "True") <=> ~C5_FatalRaised

\* piexif.dump, os.utime and both backup writes fail, and the call succeeds
C5_Witness ==
    /\ C5_Called
    /\ call.result = "True"
    /\ call.env.dump = "raise"
    /\ call.env.utime = "raise"
    /\ call.env.backup = "raise_after_open"
    /\ call.env.backup_simple = "raise_before_open"

C6_InOrderOnce ==
    /\ visited = [k \in 1..Len(visited) |-> k]
    /\ Len(visited) <= Len(image_files)
    /\ convert_calls = converted_count + failed_count

C6_RunOver ==
    \/ pc \in {"interrupted", "nofiles"}
    \/ pc = "summary" /\ visited = [k \in 1..Len(image_files) |-> k]

\* C6: a failed conversion is counted and the loop goes on: unless the
\* operator interrupts, the run ends with every discovered file visited
\* exactly once, in list order, however many conversions failed.
C6_EveryFileVisited == []C6_InOrderOnce /\ <>C6_RunOver

\* both files of a two-file run failed to convert and both were visited
C6_Witness ==
    /\ pc = "summary"
    /\ Len(image_files) = 2
    /\ failed_count = 2
    /\ visited = <<1, 2>>

C7_Accepted == {"s", "sim", "y", "yes", "S", "SIM", "Y", "YES", "Sim", "Yes"}

\* C7: when the destination exists and the answer to the overwrite prompt is
\* not s/sim/y/yes, the converter is not called and the output file, its
\* timestamps and the backup files are left as they were.
C7_DeclineLeavesFilesAlone ==
    [][ ( /\ pc = "loop"
          /\ last'.idx = idx
          /\ last'.prompted
          /\ last'.resposta \notin C7_Accepted )
        => ( /\ webp' = webp
             /\ backup' = backup
             /\ backup_simple' = backup_simple
             /\ convert_calls' = convert_calls ) ]_vars

\* the output written from a.jpg in this run is kept when the prompt for the
\* second source of the same basename is declined
C7_Witness ==
    /\ last.outcome = "declined"
    /\ last.idx = 2
    /\ last.resposta = "n"
    /\ webp["a"] # Absent
    /\ webp["a"].content = "a.jpg"
    /\ convert_calls = 1

\* C8: backup writing is all-or-nothing: when writing <basename>_metadata.json
\* (or the simplified fallback) fails at any point, no partially written
\* backup file remains on disk.  (Under SpecConvert.)
C8_NoPartialBackup ==
    \A b \in Bases : backup[b] # "partial" /\ backup_simple[b] # "partial"

C9_Applied ==
    /\ last.outcome = "converted"
    /\ last.creation_datetime # None
    /\ ParseExifDateTime(last.creation_datetime.v).ok
    /\ last.utime = "ok"

C9_Output == webp[base_name(image_files[last.idx])]

\* C9: after a successful conversion with a resolved timestamp that parses
\* (and os.utime succeeding), the output's modification time is that instant
\* when the processing of the file ends: nothing after set_file_timestamps
\* writes to the output.
C9_MtimeIsPhotoInstant ==
    C9_Applied =>
        /\ C9_Output # Absent
        /\ C9_Output.mtime = Instant(ParseExifDateTime(last.creation_datetime.v).t)
        /\ last.creation_datetime = PyStr(D2020) =>
               C9_Output.mtime = Instant(<<2020, 1, 1, 10, 0, 0>>)

\* the capture date 2020:01:01 10:00:00 is on the output after the backup
\* was written
C9_Witness ==
    /\ C9_Applied
    /\ backup[base_name(image_files[last.idx])] = "complete"
    /\ C9_Output.mtime = Instant(<<2020, 1, 1, 10, 0, 0>>)
    /\ C9_Output.atime = Instant(<<2020, 1, 1, 10, 0, 0>>)

----------------------------------------------------------------------------
(* Every value of the sanitized tree, under SpecExif *)

C11_Safe(v) ==
    \/ v.kind = "bytes"
    \/ v.kind = "int" /\ C2_InRange(v.v)
    \/ C2_IsRational(v) /\ C2_InRange(v.v[1].v) /\ C2_InRange(v.v[2].v)

\* C11 as stated: every value of the returned tree, inside a group or as a
\* top-level non-mapping entry, is a blob, an in-range integer or a pair of
\* in-range integers; no text and no out-of-range integer survives anywhere.
C11_EveryValueValidated ==
    (C_Sanitized /\ cleaned # None) =>
        \A n \in DOMAIN cleaned :
            IF IsDict(cleaned[n])
            THEN \A t \in DOMAIN cleaned[n].tags : C11_Safe(cleaned[n].tags[t])
            ELSE C11_Safe(cleaned[n])

\* C11 amended: every value inside a group of the returned tree is a blob, an
\* in-range integer or a pair of in-range integers; a top-level non-mapping
\* entry is a blob, a text or an integer returned exactly as it was given
\* (text not encoded, integers not range-checked).
C11_GroupValuesValidated ==
    (C_Sanitized /\ cleaned # None) =>
        \A n \in DOMAIN cleaned :
            IF IsDict(cleaned[n])
            THEN \A t \in DOMAIN cleaned[n].tags : C11_Safe(cleaned[n].tags[t])
            ELSE /\ cleaned[n].kind \in {"bytes", "str", "int"}
                 /\ n \in DOMAIN exif_dict
                 /\ cleaned[n] = exif_dict[n]

\* a group whose text came back as bytes next to a top-level integer beyond
\* 32 bits that came back as it was
C11_Witness ==
    /\ C_Sanitized
    /\ cleaned # None
    /\ DOMAIN cleaned = {"Exif", "0th"}
    /\ cleaned["Exif"] = PyInt(Big(32768, 0))
    /\ IsDict(cleaned["0th"])
    /\ IsDict(exif_dict["0th"])
    /\ DateTime \in DOMAIN exif_dict["0th"].tags
    /\ exif_dict["0th"].tags[DateTime].kind = "str"
    /\ cleaned["0th"].tags[DateTime].kind = "bytes"

----------------------------------------------------------------------------
(* The counters at the end-of-run summary, under Spec *)

C12_Counted == converted_count + skipped_count + failed_count

\* C12: at the end-of-run summary every discovered file has been counted in
\* exactly one of the three counters, so their sum is the number of
\* discovered files, whatever the per-file outcomes were.
C12_CountersSumToFiles ==
    pc = "summary" => C12_Counted = Len(image_files)

====
